---- MODULE Spec2Model ----
(***************************************************************************)
(* Model of src/src/lib.rs: the relational task store (table `todo` behind *)
(* a rusqlite connection, used by the CLI) and the in-memory task service  *)
(* (HashMap behind Arc<RwLock<..>>, used by the axum handlers).            *)
(***************************************************************************)
EXTENDS Integers, Sequences, FiniteSets, TLC

(***************************************************************************)
(* Bounds of the model.                                                    *)
(***************************************************************************)
\* at most this many add calls (caps the AUTOINCREMENT counter)
MaxAdds == 3
\* current_timestamp takes the values 0 .. MaxClock
MaxClock == 1

\* the service has this many connections; under SpecService and SpecFair each
\* carries one request, so at most this many requests run concurrently
MaxReqs == 3
\* offset and limit of a listing are absent or in 0 .. MaxPage
MaxPage == 1
\* a client that waits for each answer sends its next request while at most
\* this many of its requests have modified the map
MaxSerial == 3

\* the names print_list renders are at most this many bytes long
MaxNameBytes == 46

\* task names passed to add
Names == {"A", "B"}
\* identifiers passed to toggle and rm: 0 is never assigned, the rest may be
IdArgs == 0 .. MaxAdds

VARIABLES
    todo,          \* table todo: rowid -> [name, date_added, is_done]
    seq,           \* sqlite_sequence row of table todo: largest rowid ever used
    now,           \* value current_timestamp yielded when last read
    last,          \* the last call on the store, its arguments and its result
    prev,          \* the call before the last one
    assigned,      \* history: the ids given out by add, in call order
    removed        \* history: number of rows deleted so far (by rm or reset)

VARIABLES
    db,            \* the HashMap<Uuid, Todo2>, as its entries in iteration order
    lock,          \* the RwLock around it: who holds it for writing, who for reading
    reqs,          \* the request handlers: input, position, locals and response
    issued,        \* history: the identifiers Uuid::new_v4 has produced
    deleted,       \* history: the identifiers a delete has answered 204 for
    modifiers      \* history: the requests that modified the map, in that order

VARIABLES
    row_name,      \* the name of the task print_list is rendering
    shown          \* what truncate_at made of it, once it was called

storeVars == <<todo, seq, now, last, prev, assigned, removed>>

serviceVars == <<db, lock, reqs, issued, deleted, modifiers>>

printVars == <<row_name, shown>>

vars == <<storeVars, serviceVars, printVars>>

(***************************************************************************)
(* Relational task store                                                   *)
(***************************************************************************)

\* struct Todo, built by Todo::new from the four columns of a row
Todo_new(id, name, date_added, is_done) ==
    [id |-> id, name |-> name, date_added |-> date_added, is_done |-> is_done]

Max(S) == CHOOSE x \in S : \A y \in S : y <= x

\* the store as a whole: the table and its AUTOINCREMENT bookkeeping
Store == [todo |-> todo, seq |-> seq]

\* CREATE TABLE IF NOT EXISTS todo (...) on a fresh database: no rows, and no
\* sqlite_sequence entry yet (read as 0)
verify_db == [todo |-> << >>, seq |-> 0]

\* mutant: a plain INTEGER PRIMARY KEY, without AUTOINCREMENT
NextRowid_NoAutoincrement(t, s) == Max({0} \cup DOMAIN t) + 1

\* PRIMARY KEY(id AUTOINCREMENT): the next rowid is one more than the largest
\* rowid the table has ever held
NextRowid(t, s) == Max({s} \cup DOMAIN t) + 1

\* mutant: the column default of is_done is 1
SqlInsert_DefaultDone(st, name, ts) ==
    LET id == NextRowid(st.todo, st.seq)
    IN  [todo |-> [i \in DOMAIN st.todo \cup {id} |->
                      IF i = id
                      THEN [name |-> name, date_added |-> ts, is_done |-> 1]
                      ELSE st.todo[i]],
         seq  |-> id]

\* INSERT INTO todo (name) VALUES (?): id from AUTOINCREMENT, date_added from
\* DEFAULT current_timestamp, is_done from DEFAULT 0
SqlInsert(st, name, ts) ==
    LET id == NextRowid(st.todo, st.seq)
    IN  [todo |-> [i \in DOMAIN st.todo \cup {id} |->
                      IF i = id
                      THEN [name |-> name, date_added |-> ts, is_done |-> 0]
                      ELSE st.todo[i]],
         seq  |-> id]

\* mutant: UPDATE todo SET is_done = 1 WHERE id = ?
SqlToggle_SetDone(st, id) ==
    [st EXCEPT !.todo = [i \in DOMAIN st.todo |->
                            IF i = id
                            THEN [st.todo[i] EXCEPT !.is_done = 1]
                            ELSE st.todo[i]]]

\* mutant: UPDATE todo SET is_done = 1 - is_done (the WHERE clause is missing)
SqlToggle_NoWhere(st, id) ==
    [st EXCEPT !.todo = [i \in DOMAIN st.todo |->
                            [st.todo[i] EXCEPT !.is_done = 1 - @]]]

\* mutant: UPDATE todo SET is_done = is_done - 1 WHERE id = ?
SqlToggle_Decrement(st, id) ==
    [st EXCEPT !.todo = [i \in DOMAIN st.todo |->
                            IF i = id
                            THEN [st.todo[i] EXCEPT !.is_done = @ - 1]
                            ELSE st.todo[i]]]

\* UPDATE todo SET is_done = 1 - is_done WHERE id = ?
SqlToggle(st, id) ==
    [st EXCEPT !.todo = [i \in DOMAIN st.todo |->
                            IF i = id
                            THEN [st.todo[i] EXCEPT !.is_done = 1 - @]
                            ELSE st.todo[i]]]

\* mutant: DELETE FROM todo WHERE is_done = 1
SqlDeleteAll_DoneOnly(st) ==
    [st EXCEPT !.todo = [i \in {k \in DOMAIN st.todo : st.todo[k].is_done # 1} |->
                            st.todo[i]]]

\* DELETE FROM todo: every row goes, the sqlite_sequence entry stays
SqlDeleteAll(st) == [st EXCEPT !.todo = << >>]

\* mutant: DELETE FROM todo WHERE id <= ?
SqlDelete_UpTo(st, id) ==
    [st EXCEPT !.todo = [i \in {k \in DOMAIN st.todo : k > id} |-> st.todo[i]]]

\* DELETE FROM todo WHERE id = ?
SqlDelete(st, id) ==
    [st EXCEPT !.todo = [i \in DOMAIN st.todo \ {id} |-> st.todo[i]]]

\* mutant: the plain listing is ORDER BY id DESC
RowBefore_Desc(t, sort_by_status, i, j) ==
    IF sort_by_status
    THEN \/ t[i].is_done < t[j].is_done
         \/ t[i].is_done = t[j].is_done /\ i < j
    ELSE j < i

\* mutant: both listings are ORDER BY id
RowBefore_IdOnly(t, sort_by_status, i, j) == i < j

\* ORDER BY is_done, id  /  ORDER BY id : does row i come before row j
RowBefore(t, sort_by_status, i, j) ==
    IF sort_by_status
    THEN \/ t[i].is_done < t[j].is_done
         \/ t[i].is_done = t[j].is_done /\ i < j
    ELSE i < j

\* the rowids of t in the order of the ORDER BY clause
RECURSIVE OrderBy(_, _, _)
OrderBy(t, ids, sort_by_status) ==
    IF ids = {} THEN << >>
    ELSE LET first == CHOOSE i \in ids :
                         \A j \in ids \ {i} : RowBefore(t, sort_by_status, i, j)
         IN  <<first>> \o OrderBy(t, ids \ {first}, sort_by_status)

\* row.get(3)? into u8: fails unless the stored value is in 0 .. 255
FromSqlU8(v) == v >= 0 /\ v <= 255

\* Todo::list: SELECT * FROM todo ORDER BY ..., each row read into a Todo;
\* the first row that fails to convert makes the whole call an Err
list_result(st, sort_by_status) ==
    LET t     == st.todo
        order == OrderBy(t, DOMAIN t, sort_by_status)
    IN  IF \A i \in DOMAIN t : FromSqlU8(t[i].is_done)
        THEN [ok |-> TRUE,
              todos |-> [k \in 1 .. Len(order) |->
                            Todo_new(order[k], t[order[k]].name,
                                     t[order[k]].date_added, t[order[k]].is_done)]]
        ELSE [ok |-> FALSE, todos |-> << >>]

Call(op, id, name, sort, ok, ret) ==
    [op |-> op, id |-> id, name |-> name, sort |-> sort, ok |-> ok, ret |-> ret,
     pre |-> Store]

NoCall == [op |-> "none", id |-> 0, name |-> "", sort |-> FALSE, ok |-> TRUE,
           ret |-> << >>, pre |-> verify_db]

\* what is kept of call c once the call `op(id)` has followed it: always its
\* operation; its argument when the operation is repeated; the store before it
\* when the very same call is repeated or when c was a reset
Earlier(c, op, id) ==
    [op  |-> c.op,
     id  |-> IF c.op = op THEN c.id ELSE 0,
     pre |-> IF (c.op = op /\ c.id = id) \/ c.op = "reset" THEN c.pre ELSE verify_db]

InitStore ==
    /\ todo = verify_db.todo
    /\ seq = verify_db.seq
    /\ now = 0
    /\ last = NoCall
    /\ prev = Earlier(NoCall, "none", 0)
    /\ assigned = << >>
    /\ removed = 0

\* Todo::add(conn, name); the clock read by DEFAULT current_timestamp has not
\* gone back since it was last read
add ==
    \E name \in Names, ts \in now .. MaxClock :
        LET st == SqlInsert(Store, name, ts)
        IN  /\ Len(assigned) < MaxAdds
            /\ now' = ts
            /\ todo' = st.todo
            /\ seq' = st.seq
            /\ assigned' = assigned \o
                   <<CHOOSE i \in DOMAIN st.todo :
                        i \notin DOMAIN todo \/ st.todo[i] # todo[i]>>
            /\ prev' = Earlier(last, "add", 0)
            /\ last' = Call("add", 0, name, FALSE, TRUE, << >>)
            /\ UNCHANGED <<removed, serviceVars, printVars>>

\* Todo::list(conn, sort_by_status)
list ==
    \E sort_by_status \in BOOLEAN :
        LET r == list_result(Store, sort_by_status)
        IN  /\ prev' = Earlier(last, "list", 0)
            /\ last' = Call("list", 0, "", sort_by_status, r.ok, r.todos)
            /\ UNCHANGED <<todo, seq, now, assigned, removed, serviceVars, printVars>>

\* Todo::toggle(conn, id)
toggle ==
    \E id \in IdArgs :
        LET st == SqlToggle(Store, id)
        IN  /\ todo' = st.todo
            /\ seq' = st.seq
            /\ prev' = Earlier(last, "toggle", id)
            /\ last' = Call("toggle", id, "", FALSE, TRUE, << >>)
            /\ UNCHANGED <<now, assigned, removed, serviceVars, printVars>>

\* Todo::reset(conn)
reset ==
    LET st == SqlDeleteAll(Store)
    IN  /\ todo' = st.todo
        /\ seq' = st.seq
        /\ removed' = removed + Cardinality(DOMAIN todo) - Cardinality(DOMAIN st.todo)
        /\ prev' = Earlier(last, "reset", 0)
        /\ last' = Call("reset", 0, "", FALSE, TRUE, << >>)
        /\ UNCHANGED <<now, assigned, serviceVars, printVars>>

\* Todo::rm(conn, id)
rm ==
    \E id \in IdArgs :
        LET st == SqlDelete(Store, id)
        IN  /\ todo' = st.todo
            /\ seq' = st.seq
            /\ removed' = removed + Cardinality(DOMAIN todo) - Cardinality(DOMAIN st.todo)
            /\ prev' = Earlier(last, "rm", id)
            /\ last' = Call("rm", id, "", FALSE, TRUE, << >>)
            /\ UNCHANGED <<now, assigned, serviceVars, printVars>>

NextStore == add \/ list \/ toggle \/ reset \/ rm

(***************************************************************************)
(* Rendering: print_list and truncate_at                                   *)
(***************************************************************************)

\* A str is the sequence of its characters; a character stands for its UTF-8
\* encoding, which is 1 to 4 bytes long.
Ascii == {"a", "."}
Wide == {"U+00E9", "U+20AC", "U+1F600"}
len_utf8(c) ==
    IF c \in Ascii THEN 1
    ELSE IF c = "U+00E9" THEN 2
    ELSE IF c = "U+20AC" THEN 3
    ELSE 4

\* str::len: the length in bytes
RECURSIVE str_len(_)
str_len(s) == IF s = << >> THEN 0 ELSE len_utf8(Head(s)) + str_len(Tail(s))

\* str::is_char_boundary: byte offset n is the start of a character or the end
is_char_boundary(s, n) ==
    \E k \in 0 .. Len(s) : str_len(SubSeq(s, 1, k)) = n

\* &s[..n]: the characters in the first n bytes; panics when byte n is inside
\* a character
slice_to(s, n) ==
    IF is_char_boundary(s, n)
    THEN [panic |-> FALSE,
          value |-> SubSeq(s, 1, CHOOSE k \in 0 .. Len(s) :
                                     str_len(SubSeq(s, 1, k)) = n)]
    ELSE [panic |-> TRUE, value |-> << >>]

\* the width print_list truncates names to
DisplayWidth == 44

\* truncate_at(input, max)
truncate_at(input, max) ==
    LET max_len == max
    IN  IF str_len(input) > max_len
        THEN LET truncated == slice_to(input, max_len - 3)
             IN  IF truncated.panic THEN truncated
                 ELSE [panic |-> FALSE, value |-> truncated.value \o <<".", ".", ".">>]
        ELSE [panic |-> FALSE, value |-> input]

\* n ASCII characters
Letters(n) == [k \in 1 .. n |-> "a"]

\* the names print_list is given: ASCII names, and names with one character
\* that is not ASCII, anywhere in the name
PrintNames ==
    {Letters(n) : n \in 0 .. MaxNameBytes}
        \cup UNION {{Letters(n) \o <<c>> \o Letters(m) :
                        m \in 0 .. (MaxNameBytes - n - len_utf8(c))} :
                    n \in 0 .. MaxNameBytes, c \in Wide}

NotShown == [panic |-> FALSE, value |-> <<"not shown">>]


(***************************************************************************)
(* In-memory task service                                                  *)
(***************************************************************************)

\* the values Uuid::new_v4 can produce, and the texts a request can carry
Uuids == {"u1", "u2", "u3"}
\* the ids clients put in the path of PATCH and DELETE; identifiers are
\* interchangeable, and each of these two can be the id of a stored task or not
PathIds == {"u1", "u2"}
Texts == {"x", "y"}

Reqs == 1 .. MaxReqs

\* Option<T>: None is << >>, Some(v) is <<v>>
None == << >>
Some(v) == <<v>>
Option(S) == {None} \cup {Some(v) : v \in S}
unwrap_or(o, d) == IF o = None THEN d ELSE o[1]

\* struct Todo2
Todo2(id, text, completed) == [id |-> id, text |-> text, completed |-> completed]

\* all orders the entries in set S can be iterated in
RECURSIVE Orders(_)
Orders(S) ==
    IF S = {} THEN {<< >>}
    ELSE UNION {{<<e>> \o o : o \in Orders(S \ {e})} : e \in S}

Entries(m) == {m[k] : k \in 1 .. Len(m)}
Keys(m) == {m[k].id : k \in 1 .. Len(m)}

\* HashMap::get(&id).cloned()
HashMapGet(m, id) ==
    IF id \in Keys(m) THEN Some(CHOOSE e \in Entries(m) : e.id = id) ELSE None

\* HashMap::insert(k, v): the maps that can result. The value of a key already
\* present is replaced where it is; a new key may go anywhere and, when the
\* table grows, every entry is rehashed, so any order of the entries can follow.
HashMapInsert(m, k, v) ==
    IF k \in Keys(m)
    THEN {[i \in 1 .. Len(m) |-> IF m[i].id = k THEN v ELSE m[i]]}
    ELSE Orders(Entries(m) \cup {v})

\* HashMap::remove(&id): the other entries stay where they are
HashMapRemove(m, id) == SelectSeq(m, LAMBDA e : e.id # id)

\* RwLock: read() is granted while nobody writes, write() while nobody holds it
Unlocked == [writer |-> 0, readers |-> {}]
CanRead(l) == l.writer = 0
CanWrite(l) == l.writer = 0 /\ l.readers = {}

\* HTTP status codes
OK == 200
CREATED == 201
NO_CONTENT == 204
NOT_FOUND == 404

\* a handler that has not been called yet
Idle ==
    [op |-> "none", pc |-> "idle", id |-> "", text |-> None, completed |-> None,
     offset |-> None, limit |-> None, todo |-> None, status |-> 0, body |-> << >>,
     others |-> {}, interfered |-> FALSE]

\* request r arrives: requests are numbered in the order they arrive
Arrives(r) ==
    /\ reqs[r].pc = "idle"
    /\ IF r = 1 THEN TRUE ELSE reqs[r - 1].pc # "idle"

Started(op, pc) == [Idle EXCEPT !.op = op, !.pc = pc]

\* history kept with each request when request w modifies the map:
\* others: the other requests that modified the map since the request arrived
\*     and before it was answered;
\* interfered: another request modified the map after this update read its task
\*     and before it put it back
Modified(rq, w) ==
    [r \in Reqs |->
        IF r = w \/ rq[r].pc \in {"idle", "done"} THEN rq[r]
        ELSE [rq[r] EXCEPT !.others = @ \cup {w},
                           !.interfered = @ \/ rq[r].pc = "update_write"]]

InitService ==
    /\ db = << >>
    /\ lock = Unlocked
    /\ reqs = [r \in Reqs |-> Idle]
    /\ issued = {}
    /\ deleted = {}
    /\ modifiers = << >>

Init == InitStore /\ InitService /\ row_name = << >> /\ shown = NotShown

\* a listing that takes `limit` entries first and skips `offset` of those
SkipTake_TakeThenSkip(m, offset, limit) ==
    LET from == unwrap_or(offset, 0) + 1
        n    == Len(m)
        to   == IF limit = None \/ limit[1] > n THEN n ELSE limit[1]
    IN  IF from > to THEN << >> ELSE [k \in 1 .. (to - from + 1) |-> m[from + k - 1]]

\* .skip(offset).take(limit) over todos.values()
SkipTake(m, offset, limit) ==
    LET from == unwrap_or(offset, 0) + 1
        n    == Len(m)
        to   == IF limit = None \/ from + limit[1] - 1 > n THEN n
                ELSE from + limit[1] - 1
    IN  IF from > to THEN << >> ELSE [k \in 1 .. (to - from + 1) |-> m[from + k - 1]]

\* GET /todos?offset=..&limit=.. reaches todos_index
IndexStart(r) ==
    \E offset \in Option(0 .. MaxPage), limit \in Option(0 .. MaxPage) :
        /\ Arrives(r)
        /\ reqs' = [reqs EXCEPT ![r] = [Started("index", "index_read")
                                           EXCEPT !.offset = offset, !.limit = limit]]
        /\ UNCHANGED <<db, lock, issued, deleted, modifiers, storeVars, printVars>>

\* let todos = db.read().unwrap();
IndexRead(r) ==
    /\ reqs[r].pc = "index_read"
    /\ CanRead(lock)
    /\ lock' = [lock EXCEPT !.readers = @ \cup {r}]
    /\ reqs' = [reqs EXCEPT ![r].pc = "index_collect"]
    /\ UNCHANGED <<db, issued, deleted, modifiers, storeVars, printVars>>

\* collect the page, answer Json(todos); the read guard is dropped on return
IndexReturn(r) ==
    /\ reqs[r].pc = "index_collect"
    /\ lock' = [lock EXCEPT !.readers = @ \ {r}]
    /\ reqs' = [reqs EXCEPT ![r].pc = "done", ![r].status = OK,
                            ![r].body = SkipTake(db, reqs[r].offset, reqs[r].limit)]
    /\ UNCHANGED <<db, issued, deleted, modifiers, storeVars, printVars>>

\* a generator that can give an identifier out again
new_v4_Repeating == Uuids

\* Uuid::new_v4(): a random 122-bit identifier; a repeat has probability about
\* 2^-122 per pair and is taken not to happen
new_v4 == Uuids \ issued

\* POST /todos {text} reaches todos_create, which builds the Todo2
CreateStart(r) ==
    \E text \in Texts, id \in new_v4 :
        /\ Arrives(r)
        /\ issued' = issued \cup {id}
        /\ reqs' = [reqs EXCEPT ![r] = [Started("create", "create_write")
                                           EXCEPT !.text = Some(text),
                                                  !.todo = Some(Todo2(id, text, FALSE))]]
        /\ UNCHANGED <<db, lock, deleted, modifiers, storeVars, printVars>>

\* db.write().unwrap()
CreateWrite(r) ==
    /\ reqs[r].pc = "create_write"
    /\ CanWrite(lock)
    /\ lock' = [lock EXCEPT !.writer = r]
    /\ reqs' = [reqs EXCEPT ![r].pc = "create_insert"]
    /\ UNCHANGED <<db, issued, deleted, modifiers, storeVars, printVars>>

\* .insert(todo.id, todo.clone()); the guard is dropped; (CREATED, Json(todo))
CreateInsert(r) ==
    LET t == reqs[r].todo[1]
    IN  /\ reqs[r].pc = "create_insert"
        /\ db' \in HashMapInsert(db, t.id, t)
        /\ lock' = [lock EXCEPT !.writer = 0]
        /\ reqs' = [Modified(reqs, r) EXCEPT ![r].pc = "done", ![r].status = CREATED,
                                              ![r].body = <<t>>]
        /\ modifiers' = Append(modifiers, r)
        /\ UNCHANGED <<issued, deleted, storeVars, printVars>>

\* PATCH /todos/{id} {text?, completed?} reaches todos_update
UpdateStart(r) ==
    \E id \in PathIds, text \in Option(Texts), completed \in Option(BOOLEAN) :
        /\ Arrives(r)
        /\ reqs' = [reqs EXCEPT ![r] = [Started("update", "update_read")
                                           EXCEPT !.id = id, !.text = text,
                                                  !.completed = completed]]
        /\ UNCHANGED <<db, lock, issued, deleted, modifiers, storeVars, printVars>>

\* db.read().unwrap()
UpdateRead(r) ==
    /\ reqs[r].pc = "update_read"
    /\ CanRead(lock)
    /\ lock' = [lock EXCEPT !.readers = @ \cup {r}]
    /\ reqs' = [reqs EXCEPT ![r].pc = "update_get"]
    /\ UNCHANGED <<db, issued, deleted, modifiers, storeVars, printVars>>

\* a todos_update that takes an absent `completed` for false
ApplyUpdate_AbsentIsFalse(t, text, completed) ==
    Todo2(t.id, unwrap_or(text, t.text), unwrap_or(completed, FALSE))

\* if let Some(text) = input.text {..}  if let Some(completed) = input.completed {..}
ApplyUpdate(t, text, completed) ==
    Todo2(t.id, unwrap_or(text, t.text), unwrap_or(completed, t.completed))

\* a todos_update that binds the read guard to a variable, so that it lives
\* on after the lookup
UpdateGet_KeepsGuard(r) ==
    LET got == HashMapGet(db, reqs[r].id)
    IN  /\ reqs[r].pc = "update_get"
        /\ lock' = IF got = None THEN [lock EXCEPT !.readers = @ \ {r}] ELSE lock
        /\ reqs' = [reqs EXCEPT ![r] =
               IF got = None
               THEN [@ EXCEPT !.pc = "done", !.status = NOT_FOUND]
               ELSE [@ EXCEPT !.pc = "update_write",
                              !.todo = Some(ApplyUpdate(got[1], reqs[r].text,
                                                        reqs[r].completed))]]
        /\ UNCHANGED <<db, issued, deleted, modifiers, storeVars, printVars>>

\* a todos_update that, finding no task with the id, makes one
UpdateGet_Upsert(r) ==
    LET got == HashMapGet(db, reqs[r].id)
        t   == IF got = None THEN Todo2(reqs[r].id, "", FALSE) ELSE got[1]
    IN  /\ reqs[r].pc = "update_get"
        /\ lock' = [lock EXCEPT !.readers = @ \ {r}]
        /\ reqs' = [reqs EXCEPT ![r] =
               [@ EXCEPT !.pc = "update_write",
                         !.todo = Some(ApplyUpdate(t, reqs[r].text,
                                                   reqs[r].completed))]]
        /\ UNCHANGED <<db, issued, deleted, modifiers, storeVars, printVars>>

\* .get(&id).cloned().ok_or(StatusCode::NOT_FOUND)?; the read guard is a
\* temporary of this statement and is dropped at its end. Then the supplied
\* fields are written into the local copy.
UpdateGet(r) ==
    LET got == HashMapGet(db, reqs[r].id)
    IN  /\ reqs[r].pc = "update_get"
        /\ lock' = [lock EXCEPT !.readers = @ \ {r}]
        /\ reqs' = [reqs EXCEPT ![r] =
               IF got = None
               THEN [@ EXCEPT !.pc = "done", !.status = NOT_FOUND]
               ELSE [@ EXCEPT !.pc = "update_write",
                              !.todo = Some(ApplyUpdate(got[1], reqs[r].text,
                                                        reqs[r].completed))]]
        /\ UNCHANGED <<db, issued, deleted, modifiers, storeVars, printVars>>

\* db.write().unwrap()
UpdateWrite(r) ==
    /\ reqs[r].pc = "update_write"
    /\ CanWrite(lock)
    /\ lock' = [lock EXCEPT !.writer = r]
    /\ reqs' = [reqs EXCEPT ![r].pc = "update_insert"]
    /\ UNCHANGED <<db, issued, deleted, modifiers, storeVars, printVars>>

\* .insert(todo.id, todo.clone()); the guard is dropped; Ok(Json(todo))
UpdateInsert(r) ==
    LET t == reqs[r].todo[1]
    IN  /\ reqs[r].pc = "update_insert"
        /\ db' \in HashMapInsert(db, t.id, t)
        /\ lock' = [lock EXCEPT !.writer = 0]
        /\ reqs' = [Modified(reqs, r) EXCEPT ![r].pc = "done", ![r].status = OK,
                                              ![r].body = <<t>>]
        /\ modifiers' = Append(modifiers, r)
        /\ UNCHANGED <<issued, deleted, storeVars, printVars>>

\* DELETE /todos/{id} reaches todos_delete
DeleteStart(r) ==
    \E id \in PathIds :
        /\ Arrives(r)
        /\ reqs' = [reqs EXCEPT ![r] = [Started("delete", "delete_write")
                                           EXCEPT !.id = id]]
        /\ UNCHANGED <<db, lock, issued, deleted, modifiers, storeVars, printVars>>

\* db.write().unwrap()
DeleteWrite(r) ==
    /\ reqs[r].pc = "delete_write"
    /\ CanWrite(lock)
    /\ lock' = [lock EXCEPT !.writer = r]
    /\ reqs' = [reqs EXCEPT ![r].pc = "delete_remove"]
    /\ UNCHANGED <<db, issued, deleted, modifiers, storeVars, printVars>>

\* .remove(&id).is_some(); the guard is dropped; NO_CONTENT or NOT_FOUND
DeleteRemove(r) ==
    LET id      == reqs[r].id
        is_some == id \in Keys(db)
    IN  /\ reqs[r].pc = "delete_remove"
        /\ db' = HashMapRemove(db, id)
        /\ deleted' = IF is_some THEN deleted \cup {id} ELSE deleted
        /\ lock' = [lock EXCEPT !.writer = 0]
        /\ reqs' = [(IF is_some THEN Modified(reqs, r) ELSE reqs)
                        EXCEPT ![r].pc = "done",
                               ![r].status = IF is_some THEN NO_CONTENT ELSE NOT_FOUND]
        /\ modifiers' = IF is_some THEN Append(modifiers, r) ELSE modifiers
        /\ UNCHANGED <<issued, storeVars, printVars>>

\* the routes: one step of the handler that serves request r
Handler(r) ==
    \/ IndexStart(r) \/ IndexRead(r) \/ IndexReturn(r)
    \/ CreateStart(r) \/ CreateWrite(r) \/ CreateInsert(r)
    \/ UpdateStart(r) \/ UpdateRead(r) \/ UpdateGet(r)
    \/ UpdateWrite(r) \/ UpdateInsert(r)
    \/ DeleteStart(r) \/ DeleteWrite(r) \/ DeleteRemove(r)

NextService == \E r \in Reqs : Handler(r)

SpecService == Init /\ [][NextService]_vars

\* the steps of request r that take the lock, and the steps it makes while it
\* holds the lock
Acquire(r) ==
    \/ IndexRead(r) \/ CreateWrite(r) \/ UpdateRead(r) \/ UpdateWrite(r)
    \/ DeleteWrite(r)
Run(r) ==
    \/ IndexReturn(r) \/ CreateInsert(r) \/ UpdateGet(r) \/ UpdateInsert(r)
    \/ DeleteRemove(r)

\* The runtime keeps running every handler that can run, and the lock is
\* granted fairly: a request that can take it again and again does take it.
Fairness == \A r \in Reqs : WF_vars(Run(r)) /\ SF_vars(Acquire(r))

\* The requests sent under SpecFair. What a handler does with the lock depends
\* on its route and on whether its id is a key of the map, not on the text, the
\* flag or the page asked for: one value of each is sent.
LockCases ==
    \A r \in Reqs :
        /\ reqs[r].text \in {None, Some("x")}
        /\ reqs[r].completed \in {None, Some(TRUE)}
        /\ reqs[r].offset = None /\ reqs[r].limit = None
        /\ reqs[r].id \in {"", "u1"}

NextFair ==
    \E r \in Reqs :
        \/ IndexStart(r) /\ LockCases'
        \/ CreateStart(r) /\ LockCases'
        \/ UpdateStart(r) /\ LockCases'
        \/ DeleteStart(r) /\ LockCases'
        \/ IndexRead(r) \/ IndexReturn(r)
        \/ CreateWrite(r) \/ CreateInsert(r)
        \/ UpdateRead(r) \/ UpdateGet(r) \/ UpdateWrite(r) \/ UpdateInsert(r)
        \/ DeleteWrite(r) \/ DeleteRemove(r)

SpecFair == Init /\ [][NextFair]_vars /\ Fairness

\* A client that sends its requests one after the other on one connection:
\* it has the answer to a request before it sends the next.
Client == 1

\* the answer has been sent; the connection is ready for the next request
Respond ==
    /\ reqs[Client].pc = "done"
    /\ Len(modifiers) <= MaxSerial
    /\ reqs' = [reqs EXCEPT ![Client] = Idle]
    /\ UNCHANGED <<db, lock, issued, deleted, modifiers, storeVars, printVars>>

NextSerial == Handler(Client) \/ Respond

SpecSerial == Init /\ [][NextSerial]_vars

InitPrint ==
    /\ InitStore /\ InitService
    /\ row_name \in PrintNames
    /\ shown = NotShown

\* Todo::print_list, for one row: the name goes through truncate_at(&todo.name, 44)
print_list ==
    /\ shown = NotShown
    /\ shown' = truncate_at(row_name, DisplayWidth)
    /\ UNCHANGED <<row_name, storeVars, serviceVars>>

NextPrint == print_list

SpecPrint == InitPrint /\ [][NextPrint]_vars

SpecStore == Init /\ [][NextStore]_vars

(***************************************************************************)
(* Claims about the relational task store (checked under SpecStore)        *)
(***************************************************************************)

\* C4: list(false) returns the tasks in strictly ascending identifier order,
\* and as many of them as add was called minus the rows that were deleted.
C4_ListAscendingAndCounted ==
    (last.op = "list" /\ ~last.sort) =>
        /\ last.ok
        /\ \A i, j \in 1 .. Len(last.ret) :
               i < j => last.ret[i].id < last.ret[j].id
        /\ Len(last.ret) = Len(assigned) - removed

C4_Witness ==
    /\ last.op = "list" /\ ~last.sort
    /\ Len(last.ret) >= 2
    /\ removed >= 1
    /\ \E k \in 1 .. Len(last.ret) : last.ret[k].is_done = 1

\* C5: list(true) returns every stored task exactly once, no completed task
\* before an incomplete one, and ascending identifiers within each group.
C5_SortedByStatusThenId ==
    (last.op = "list" /\ last.sort) =>
        /\ last.ok
        /\ Len(last.ret) = Cardinality(DOMAIN todo)
        /\ \A id \in DOMAIN todo :
               \E k \in 1 .. Len(last.ret) :
                   last.ret[k] = Todo_new(id, todo[id].name, todo[id].date_added,
                                          todo[id].is_done)
        /\ \A i, j \in 1 .. Len(last.ret) :
               i < j =>
                   /\ ~(last.ret[i].is_done = 1 /\ last.ret[j].is_done = 0)
                   /\ last.ret[i].is_done = last.ret[j].is_done
                          => last.ret[i].id < last.ret[j].id

\* add A, B, C; toggle the first id; list(true) gives B, C, A
C5_Witness ==
    /\ last.op = "list" /\ last.sort
    /\ Len(last.ret) = 3
    /\ last.ret[1].id = 2 /\ last.ret[2].id = 3 /\ last.ret[3].id = 1
    /\ last.ret[1].is_done = 0 /\ last.ret[2].is_done = 0 /\ last.ret[3].is_done = 1

\* C6: toggle(id) applied twice in a row leaves the store as it was before the
\* first of the two calls.
C6_ToggleTwiceRestores ==
    (last.op = "toggle" /\ prev.op = "toggle" /\ prev.id = last.id) =>
        Store = prev.pre

C6_Witness ==
    /\ last.op = "toggle" /\ prev.op = "toggle" /\ prev.id = last.id
    /\ last.id \in DOMAIN todo
    /\ last.pre.todo[last.id].is_done = 1
    /\ todo[last.id].is_done = 0

\* C7: rm(id) succeeds; no task with that id is left (in the table or in either
\* listing), every other task is kept unchanged, and the count drops by one
\* exactly when a task with that id existed.
C7_RmRemovesOnlyThatTask ==
    last.op = "rm" =>
        /\ last.ok
        /\ last.id \notin DOMAIN todo
        /\ \A s \in BOOLEAN :
               LET r == list_result(Store, s)
               IN  /\ r.ok
                   /\ \A k \in 1 .. Len(r.todos) : r.todos[k].id # last.id
                   /\ Len(r.todos) = Cardinality(DOMAIN last.pre.todo)
                                       - (IF last.id \in DOMAIN last.pre.todo THEN 1 ELSE 0)
        /\ DOMAIN todo = DOMAIN last.pre.todo \ {last.id}
        /\ \A i \in DOMAIN todo : todo[i] = last.pre.todo[i]
        /\ seq = last.pre.seq

C7_Witness ==
    /\ last.op = "rm"
    /\ last.id \in DOMAIN last.pre.todo
    /\ Cardinality(DOMAIN todo) = 2

\* C8: reset() followed directly by list, with either sort flag, returns an
\* empty sequence.
C8_ResetThenListEmpty ==
    /\ last.op = "reset" =>
           \A s \in BOOLEAN : list_result(Store, s) = [ok |-> TRUE, todos |-> << >>]
    /\ (prev.op = "reset" /\ last.op = "list") =>
           (last.ok /\ last.ret = << >>)

C8_Witness ==
    /\ prev.op = "reset" /\ last.op = "list"
    /\ Cardinality(DOMAIN prev.pre.todo) >= 2
    /\ \E i \in DOMAIN prev.pre.todo : prev.pre.todo[i].is_done = 1

\* C9: every identifier add assigns is strictly greater than every identifier
\* an earlier add assigned, whatever toggle, rm and reset did in between.
C9_IdsStrictlyIncrease ==
    \A i, j \in 1 .. Len(assigned) : i < j => assigned[i] < assigned[j]

\* an add after the task with the largest identifier was deleted
C9_Witness ==
    /\ last.op = "add"
    /\ Len(assigned) >= 2
    /\ assigned[Len(assigned) - 1] \notin DOMAIN last.pre.todo
    /\ last.pre.todo # << >>

\* C10: add(name) inserts exactly one new task, named `name`, pending, under an
\* identifier no stored task had, and leaves every stored task unchanged.
C10_AddInsertsOnePending ==
    last.op = "add" =>
        /\ last.ok
        /\ Cardinality(DOMAIN todo \ DOMAIN last.pre.todo) = 1
        /\ \A i \in DOMAIN todo \ DOMAIN last.pre.todo :
               /\ todo[i].name = last.name
               /\ todo[i].is_done = 0
        /\ \A i \in DOMAIN last.pre.todo :
               i \in DOMAIN todo /\ todo[i] = last.pre.todo[i]

C10_Witness ==
    /\ last.op = "add" /\ last.name = "B"
    /\ Cardinality(DOMAIN last.pre.todo) >= 1
    /\ \E i \in DOMAIN last.pre.todo :
           last.pre.todo[i].is_done = 1 /\ last.pre.todo[i].name = "A"

\* C11: toggle(id) succeeds and changes nothing but the completion flag of the
\* task with that id, which it flips; with no such task the store is unchanged.
C11_ToggleFlipsOnlyThatFlag ==
    last.op = "toggle" =>
        /\ last.ok
        /\ seq = last.pre.seq
        /\ DOMAIN todo = DOMAIN last.pre.todo
        /\ \A i \in DOMAIN todo :
               /\ todo[i].name = last.pre.todo[i].name
               /\ todo[i].date_added = last.pre.todo[i].date_added
               /\ i # last.id => todo[i].is_done = last.pre.todo[i].is_done
               /\ i = last.id =>
                      /\ last.pre.todo[i].is_done = 0 => todo[i].is_done = 1
                      /\ last.pre.todo[i].is_done = 1 => todo[i].is_done = 0
                      /\ todo[i].is_done # last.pre.todo[i].is_done
        /\ last.id \notin DOMAIN last.pre.todo => Store = last.pre

\* a done task toggled back to pending beside a pending and a done task
C11_Witness ==
    /\ last.op = "toggle"
    /\ last.id \in DOMAIN todo
    /\ last.pre.todo[last.id].is_done = 1 /\ todo[last.id].is_done = 0
    /\ \E i, j \in DOMAIN todo \ {last.id} :
           todo[i].is_done = 0 /\ todo[j].is_done = 1

\* C18: the completion flag of every stored task is 0 or 1, so it always fits
\* the u8 field list reads it into and list never fails on it.
C18_FlagIsZeroOrOne ==
    /\ \A i \in DOMAIN todo : todo[i].is_done \in {0, 1}
    /\ \A s \in BOOLEAN : list_result(Store, s).ok
    /\ last.op = "list" => last.ok

\* a listing made after a task was toggled to done and back to pending
C18_Witness ==
    /\ last.op = "list" /\ prev.op = "toggle"
    /\ \E k \in 1 .. Len(last.ret) : last.ret[k].is_done = 1
    /\ \E k \in 1 .. Len(last.ret) : last.ret[k].is_done = 0
    /\ Len(last.ret) = Len(assigned)

(***************************************************************************)
(* Claims about the in-memory task service (checked under SpecService)     *)
(***************************************************************************)

\* C1: an update is exclusive over its whole read-modify-write sequence: no
\* other request modifies the map between the moment the update reads its task
\* and the moment it puts the modified task back.
C1_UpdateReadModifyWriteExclusive ==
    \A r \in Reqs : reqs[r].op = "update" => ~reqs[r].interfered

\* C2: once a delete of an identifier has answered 204, no later state of the
\* map holds a task with that identifier.
C2_DeletedNeverRevived ==
    \A id \in deleted : id \notin Keys(db)

\* C3: two concurrent updates of the same task, one with only `text` and one
\* with only `completed`, both answered 200 and with nobody else modifying the
\* map meanwhile, leave the task with the text of the one and the flag of the
\* other.
C3_NoLostUpdate ==
    \A p, q \in Reqs :
        ( /\ p # q
          /\ reqs[p].op = "update" /\ reqs[q].op = "update"
          /\ reqs[p].pc = "done" /\ reqs[q].pc = "done"
          /\ reqs[p].status = OK /\ reqs[q].status = OK
          /\ reqs[p].id = reqs[q].id
          /\ reqs[p].text # None /\ reqs[p].completed = None
          /\ reqs[q].text = None /\ reqs[q].completed # None
          \* concurrent: one put its task back while the other was under way
          /\ q \in reqs[p].others \/ p \in reqs[q].others
          \* nobody else modified the map since the first of the two arrived
          /\ reqs[p].others \subseteq {q} /\ reqs[q].others \subseteq {p}
          /\ Len(modifiers) >= 2
          /\ {modifiers[Len(modifiers)], modifiers[Len(modifiers) - 1]} = {p, q} )
        => LET got == HashMapGet(db, reqs[p].id)
           IN  /\ got # None
               /\ got[1].text = reqs[p].text[1]
               /\ got[1].completed = reqs[q].completed[1]

\* C13: an update or a delete whose id is not a key of the map answers 404 and
\* leaves the map as it was; a request answered 404 has not modified the map,
\* so an update of an unknown id creates no task.
C13_UnknownIdIsNotFound ==
    [][\A r \in Reqs :
          /\ ( /\ reqs[r].pc \in {"update_get", "delete_remove"}
               /\ reqs'[r].pc # reqs[r].pc
               /\ reqs[r].id \notin Keys(db) )
             => /\ reqs'[r].pc = "done"
                /\ reqs'[r].status = NOT_FOUND
                /\ db' = db
          /\ reqs'[r].status = NOT_FOUND
             => \A k \in 1 .. Len(modifiers') : modifiers'[k] # r
      ]_vars

\* an update and a delete of ids the map does not hold were both answered 404
\* while the map held a task
C13_Witness ==
    \E p, q \in Reqs :
        /\ reqs[p].op = "update" /\ reqs[p].pc = "done"
        /\ reqs[p].status = NOT_FOUND
        /\ reqs[q].op = "delete" /\ reqs[q].pc = "done"
        /\ reqs[q].status = NOT_FOUND
        /\ Len(db) = 1 /\ Keys(db) \cap {reqs[p].id, reqs[q].id} = {}
        /\ Len(modifiers) = 1

\* C14: once a delete of an id present in the map has answered 204, that task
\* is gone: an unpaginated list of the map does not contain the id.
C14_DeletedIsNotListed ==
    \A r \in Reqs :
        ( /\ reqs[r].op = "delete" /\ reqs[r].pc = "done"
          /\ reqs[r].status = NO_CONTENT )
        => LET listed == SkipTake(db, None, None)
           IN  \A k \in 1 .. Len(listed) : listed[k].id # reqs[r].id

\* C15: a create answers 201 with a task whose id is the id of no task that is
\* in the map or ever was (a key leaves the map only by a delete answered 204,
\* which records it in `deleted`), whose text is the supplied one and whose flag
\* is false; the task is then in the map and in its unpaginated list, and every
\* task stored before is still there unchanged.
C15_CreateAddsFreshTask ==
    [][\A r \in Reqs :
          (reqs[r].pc = "create_insert" /\ reqs'[r].pc = "done") =>
              LET t == reqs'[r].body[1]
                  listed == SkipTake(db', None, None)
              IN  /\ reqs'[r].status = CREATED
                  /\ Len(reqs'[r].body) = 1
                  /\ t.id \notin Keys(db) \cup deleted
                  /\ t.text = reqs[r].text[1]
                  /\ t.completed = FALSE
                  /\ HashMapGet(db', t.id) = Some(t)
                  /\ \E k \in 1 .. Len(listed) : listed[k] = t
                  /\ Len(db') = Len(db) + 1
                  /\ Entries(db) \subseteq Entries(db')
      ]_vars

\* a create was answered 201 with a task that joined two tasks stored before
C15_Witness ==
    \E r \in Reqs :
        /\ reqs[r].op = "create" /\ reqs[r].pc = "done"
        /\ reqs[r].status = CREATED
        /\ modifiers = <<1, 2, r>>
        /\ Len(db) = 3
        /\ HashMapGet(db, reqs[r].body[1].id) = reqs[r].body
        /\ ~reqs[r].body[1].completed

\* the places where a handler asks for the lock, and holding it
Acquiring == {"index_read", "create_write", "update_read", "update_write",
              "delete_write"}
Holds(r) == lock.writer = r \/ r \in lock.readers
InFlight(r) == reqs[r].pc \notin {"idle", "done"}

\* C17: a request that asks or waits for the lock holds none; whenever requests
\* are under way one of them can make a step (no deadlock); and, the lock being
\* granted fairly, every request that has started is answered.
C17_NoDeadlockAndCompletion ==
    /\ [](\A r \in Reqs : reqs[r].pc \in Acquiring => ~Holds(r))
    /\ []((\E r \in Reqs : InFlight(r))
             => \E r \in Reqs : ENABLED (Acquire(r) \/ Run(r)))
    /\ \A r \in Reqs : InFlight(r) ~> (reqs[r].pc = "done")

\* two requests took the write lock and modified the map while a third was
\* under way, and all three were answered
C17_Witness ==
    /\ \A r \in Reqs : reqs[r].pc = "done" /\ reqs[r].status # NOT_FOUND
    /\ \E r \in Reqs : reqs[r].others = Reqs \ {r}

(***************************************************************************)
(* Claims about the service with one sequential client (under SpecSerial)  *)
(***************************************************************************)

\* C12: an update of an existing id, run with no concurrent request, answers
\* 200 with the updated task; the task keeps its id, takes the text and the
\* flag the request supplies and keeps the ones it does not supply; every other
\* task in the map is unchanged.
C12_UpdateChangesOnlySuppliedFields ==
    [][\A r \in Reqs :
          (reqs[r].pc = "update_insert" /\ reqs'[r].pc = "done") =>
              LET id  == reqs[r].id
                  old == HashMapGet(db, id)
                  new == HashMapGet(db', id)
              IN  /\ old # None /\ new # None
                  /\ reqs'[r].status = OK
                  /\ reqs'[r].body = new
                  /\ new[1].id = id
                  /\ new[1].text = IF reqs[r].text = None THEN old[1].text
                                   ELSE reqs[r].text[1]
                  /\ new[1].completed = IF reqs[r].completed = None
                                        THEN old[1].completed
                                        ELSE reqs[r].completed[1]
                  /\ Len(db') = Len(db)
                  /\ \A k \in 1 .. Len(db) :
                         IF db[k].id = id THEN db'[k].id = id ELSE db'[k] = db[k]
      ]_vars

\* an update that supplied only `completed` was answered 200 while the map
\* held another task too
C12_Witness ==
    \E r \in Reqs :
        /\ reqs[r].op = "update" /\ reqs[r].pc = "done" /\ reqs[r].status = OK
        /\ reqs[r].text = None /\ reqs[r].completed = Some(TRUE)
        /\ Len(db) >= 2
        /\ HashMapGet(db, reqs[r].id) = reqs[r].body
        /\ reqs[r].body[1].completed

\* C16: a list with offset (0 when absent) and limit (unbounded when absent)
\* over a map of n tasks answers with the tasks at positions offset ..
\* offset + limit - 1 of the map's iteration order: min(limit, max(0, n - offset))
\* tasks, none twice; the map is unchanged; on a map of 3 tasks offset = 1 and
\* limit = 1 give exactly the second task.
C16_ListReturnsThePage ==
    [][\A r \in Reqs :
          (reqs[r].pc = "index_collect" /\ reqs'[r].pc = "done") =>
              LET n      == Len(db)
                  offset == IF reqs[r].offset = None THEN 0 ELSE reqs[r].offset[1]
                  rest   == IF n - offset > 0 THEN n - offset ELSE 0
                  count  == IF reqs[r].limit = None THEN rest
                            ELSE IF reqs[r].limit[1] < rest THEN reqs[r].limit[1]
                            ELSE rest
                  body   == reqs'[r].body
              IN  /\ reqs'[r].status = OK
                  /\ Len(body) = count
                  /\ \A k \in 1 .. count : body[k] = db[offset + k]
                  /\ \A i, j \in 1 .. count : i # j => body[i].id # body[j].id
                  /\ db' = db
                  /\ (n = 3 /\ reqs[r].offset = Some(1) /\ reqs[r].limit = Some(1))
                         => body = <<db[2]>>
      ]_vars

\* a list with offset = 1 and limit = 1 over a map of 3 tasks was answered with
\* the second task
C16_Witness ==
    \E r \in Reqs :
        /\ reqs[r].op = "index" /\ reqs[r].pc = "done" /\ reqs[r].status = OK
        /\ reqs[r].offset = Some(1) /\ reqs[r].limit = Some(1)
        /\ Len(db) = 3
        /\ reqs[r].body = <<db[2]>>

(***************************************************************************)
(* Claims about rendering (checked under SpecPrint)                        *)
(***************************************************************************)

\* C19: for every name, multi-byte characters included, truncate_at(name, 44)
\* does not fail; it returns the name unchanged when the name is at most 44
\* long and otherwise its first 41 units followed by "...", never more than 44.
C19_TruncateAtNeverFails ==
    shown # NotShown =>
        /\ ~shown.panic
        /\ str_len(row_name) <= DisplayWidth => shown.value = row_name
        /\ str_len(row_name) > DisplayWidth =>
               \E k \in 0 .. Len(row_name) :
                   /\ str_len(SubSeq(row_name, 1, k)) = DisplayWidth - 3
                   /\ shown.value = SubSeq(row_name, 1, k) \o <<".", ".", ".">>
        /\ str_len(shown.value) <= DisplayWidth

====
